---- MODULE Spec2Model ----
(***************************************************************************)
(* A model of `swap` (src/src/main.rs): a command-line tool exchanging two *)
(* filesystem entries through three renames and a temporary pivot.         *)
(*                                                                         *)
(* The filesystem is a tree: a function from absolute paths (sequences of  *)
(* component names, the root being the empty sequence) to entries.  Every  *)
(* entry carries the path it had before the run as its identity, so that   *)
(* "the entry that was at A" is the entry whose id is A wherever it is now. *)
(* Symbolic and hard links, and names that are not UTF-8, are outside the  *)
(* model; std::fs::canonicalize and std::fs::rename follow realpath(3) and *)
(* rename(2).                                                              *)
(***************************************************************************)
EXTENDS Naturals, Sequences, FiniteSets, TLC

\* ------------------------------------------------------------------ bounds

\* Component names of the entries that exist before the run.
Names == {"a", "b"}

\* Longest path (in components) of an entry that exists before the run and
\* of a plainly spelled command-line path.
MaxDepth == 2

\* Most entries (the root apart) the filesystem holds before the run.
MaxEntries == 4

\* Most runs of the program in a row (the specification SpecAgain).
MaxRuns == 2

\* The identifiers uuid::Uuid::new_v4() may return.
Uuids == {"u1", "u2"}

\* ------------------------------------------------- std::path::Path helpers

Root == <<>>

\* Stands for "no path" where the code has no value (an Option::None, an
\* error variant without a path, a local not yet assigned).
NoPath == <<"">>

\* Path::starts_with: component-wise prefix.
starts_with(p, base) ==
    /\ Len(base) <= Len(p)
    /\ SubSeq(p, 1, Len(base)) = base

\* Path::parent of a path that has one.
parent(p) == SubSeq(p, 1, Len(p) - 1)

\* Path::parent is None exactly for the root.
has_parent(p) == p # Root

\* Path::file_name of a canonical path other than the root.
file_name(p) == p[Len(p)]

\* Path::join with a single component.
join(dir, name) == dir \o <<name>>

\* ------------------------------------------------------- the filesystem

\* Path::is_dir: the path exists and is a directory.
is_dir(f, p) == p \in DOMAIN f /\ f[p].kind = "dir"

HasChildren(f, p) == \E q \in DOMAIN f : q # p /\ starts_with(q, p)

\* std::fs::canonicalize on a path without symbolic links: walk the
\* components from the root; ".." steps to the parent (the root is its own
\* parent); a component looked up in something that is not a directory is
\* ENOTDIR, a missing component is ENOENT.
RECURSIVE Walk(_, _, _)
Walk(f, cur, rest) ==
    IF rest = <<>> THEN [tag |-> "Ok", path |-> cur]
    ELSE IF f[cur].kind # "dir" THEN [tag |-> "NotADirectory", path |-> NoPath]
    ELSE IF Head(rest) = ".."
         THEN Walk(f, IF cur = Root THEN Root ELSE parent(cur), Tail(rest))
    ELSE IF join(cur, Head(rest)) \notin DOMAIN f
         THEN [tag |-> "NotFound", path |-> NoPath]
    ELSE Walk(f, join(cur, Head(rest)), Tail(rest))

canonicalize(f, p) == Walk(f, Root, p)

\* Moved as a copy would leave it: the source is still in place.
Moved_keeping_source(f, from, to) ==
    LET kept == {q \in DOMAIN f : ~starts_with(q, to)}
        src  == {q \in DOMAIN f : starts_with(q, from)}
        Dst(q) == to \o SubSeq(q, Len(from) + 1, Len(q))
        Src(q) == from \o SubSeq(q, Len(to) + 1, Len(q))
    IN  [q \in kept \cup {Dst(s) : s \in src} |->
            IF starts_with(q, to) THEN f[Src(q)] ELSE f[q]]

\* The tree after `from` (with everything below it) has moved to `to`,
\* replacing whatever was at `to`.
Moved(f, from, to) ==
    LET kept == {q \in DOMAIN f : ~starts_with(q, from) /\ ~starts_with(q, to)}
        src  == {q \in DOMAIN f : starts_with(q, from)}
        Dst(q) == to \o SubSeq(q, Len(from) + 1, Len(q))
        Src(q) == from \o SubSeq(q, Len(to) + 1, Len(q))
    IN  [q \in kept \cup {Dst(s) : s \in src} |->
            IF starts_with(q, to) THEN f[Src(q)] ELSE f[q]]

\* std::fs::rename, i.e. rename(2): [ok, fs].  It fails when the source is
\* missing (ENOENT), when the destination's parent is missing or no
\* directory (ENOENT, ENOTDIR), when a directory would move below itself
\* (EINVAL), when a directory would replace a file (ENOTDIR) or a non-empty
\* directory (ENOTEMPTY), and when a file would replace a directory
\* (EISDIR).  A rename of a path to itself succeeds and does nothing.  In
\* every other case an existing destination is replaced.
fs_rename(f, from, to) ==
    LET Fail == [ok |-> FALSE, fs |-> f] IN
    IF from \notin DOMAIN f \/ from = Root \/ to = Root THEN Fail
    ELSE IF ~is_dir(f, parent(to)) THEN Fail
    ELSE IF from = to THEN [ok |-> TRUE, fs |-> f]
    ELSE IF f[from].kind = "dir" /\ starts_with(to, from) THEN Fail
    ELSE IF to \in DOMAIN f /\ f[from].kind = "dir"
            /\ (f[to].kind # "dir" \/ HasChildren(f, to)) THEN Fail
    ELSE IF to \in DOMAIN f /\ f[from].kind # "dir" /\ f[to].kind = "dir" THEN Fail
    ELSE [ok |-> TRUE, fs |-> Moved(f, from, to)]

\* --------------------------------------------- the states before the run

Kinds == {"file", "dir"}

\* The trees of kinds with at most n entries besides the root, each entry
\* at most MaxDepth deep and inside a directory.
RECURSIVE TreesUpTo(_)
TreesUpTo(n) ==
    IF n = 0 THEN {[p \in {Root} |-> "dir"]}
    ELSE LET prev == TreesUpTo(n - 1)
             Free(t) == {join(d, c) : d \in {q \in DOMAIN t : t[q] = "dir" /\ Len(q) < MaxDepth},
                                      c \in Names} \ DOMAIN t
             Add(t, p, k) == [q \in DOMAIN t \cup {p} |-> IF q = p THEN k ELSE t[q]]
         IN  prev \cup UNION {{Add(t, p, k) : p \in Free(t), k \in Kinds} : t \in prev}

InitialFilesystems ==
    {[p \in DOMAIN t |-> [kind |-> t[p], id |-> p]] : t \in TreesUpTo(MaxEntries)}

\* The command-line spellings of a path: every sequence of at most MaxDepth
\* names (the empty one is "/"), and the detours "/n/.." and "/n/../m".
PlainPaths == UNION {[1..n -> Names] : n \in 0..MaxDepth}

SuppliedPaths ==
    PlainPaths \cup {<<n, "..">> : n \in Names}
               \cup {<<n, "..", m>> : n \in Names, m \in Names}

\* ------------------------------------------------------------ SwapError

Running  == [tag |-> "Running", kind |-> "", path |-> NoPath]
OkResult == [tag |-> "Ok", kind |-> "", path |-> NoPath]
Err(kind, path) == [tag |-> "Err", kind |-> kind, path |-> path]

\* ---------------------------------------------------------------- state

VARIABLES
    fs,          \* the filesystem
    cli,         \* the parsed command line: path1, path2, name_swap, verbose
    pc,          \* the statement the program is at
    path1,       \* run's local path1 (canonical)
    path2,       \* run's local path2 (canonical)
    final_dest1, \* the engine's local final_dest1
    final_dest2, \* the engine's local final_dest2
    temp_path,   \* the engine's local temp_path
    result,      \* what run returned, Running before it returns
    stdout,      \* the lines printed on standard output
    stderr,      \* the lines printed on standard error
    exit_code,   \* the process's exit status, 255 while it runs
    fs0,         \* history: the filesystem before the (first) run
    resolved1,   \* history: what cli.path1 resolves to before the run
    resolved2,   \* history: what cli.path2 resolves to before the run
    renames,     \* history: the fs::rename calls issued, in order
    earlier      \* history: the runs completed before this one

vars == <<fs, cli, pc, path1, path2, final_dest1, final_dest2, temp_path,
          result, stdout, stderr, exit_code, fs0, resolved1, resolved2, earlier,
                   renames>>

Init ==
    /\ fs \in InitialFilesystems
    /\ fs0 = fs
    /\ cli \in [path1 : SuppliedPaths, path2 : SuppliedPaths,
                name_swap : BOOLEAN, verbose : BOOLEAN]
    /\ resolved1 = canonicalize(fs, cli.path1)
    /\ resolved2 = canonicalize(fs, cli.path2)
    /\ pc = "canonicalize1"
    /\ path1 = NoPath
    /\ path2 = NoPath
    /\ final_dest1 = NoPath
    /\ final_dest2 = NoPath
    /\ temp_path = NoPath
    /\ result = Running
    /\ stdout = <<>>
    /\ stderr = <<>>
    /\ exit_code = 255
    /\ renames = <<>>
    /\ earlier = <<>>

\* The log! macro: the line is printed only when --verbose was given.
log(out, line) == IF cli.verbose THEN Append(out, line) ELSE out

Line(text, a, b) == [text |-> text, a |-> a, b |-> b]

\* map_canonicalize_error without the NotFound case: every resolution error
\* becomes Io.
map_canonicalize_error_io_only(tag, path) == Err("Io", path)

\* The closure map_canonicalize_error.
map_canonicalize_error(tag, path) ==
    IF tag = "NotFound" THEN Err("PathNotFound", path) ELSE Err("Io", path)

\* run returns `r`: control is back in main.
Return(r) ==
    /\ result' = r
    /\ pc' = "return"

\* ------------------------------------------------------------------ run

canonicalize_path1 ==
    /\ pc = "canonicalize1"
    /\ LET c == canonicalize(fs, cli.path1) IN
       IF c.tag = "Ok"
       THEN /\ path1' = c.path
            /\ pc' = "canonicalize2"
            /\ UNCHANGED result
       ELSE /\ Return(map_canonicalize_error(c.tag, cli.path1))
            /\ UNCHANGED path1
    /\ UNCHANGED <<fs, cli, path2, final_dest1, final_dest2, temp_path,
                   stdout, stderr, exit_code, fs0, resolved1, resolved2, earlier,
                   renames>>

canonicalize_path2 ==
    /\ pc = "canonicalize2"
    /\ LET c == canonicalize(fs, cli.path2) IN
       IF c.tag = "Ok"
       THEN /\ path2' = c.path
            /\ pc' = "validate"
            /\ UNCHANGED result
       ELSE /\ Return(map_canonicalize_error(c.tag, cli.path2))
            /\ UNCHANGED path2
    /\ UNCHANGED <<fs, cli, path1, final_dest1, final_dest2, temp_path,
                   stdout, stderr, exit_code, fs0, resolved1, resolved2, earlier,
                   renames>>

\* validate with the nesting checks placed before the identity check.
validate_nesting_first ==
    /\ pc = "validate"
    /\ IF is_dir(fs, path1) /\ starts_with(path2, path1)
       THEN Return(Err("SwapIntoSubdirectory", NoPath))
       ELSE IF is_dir(fs, path2) /\ starts_with(path1, path2)
       THEN Return(Err("SwapIntoSubdirectory", NoPath))
       ELSE IF path1 = path2
       THEN Return(Err("SamePath", NoPath))
       ELSE /\ pc' = "dispatch"
            /\ UNCHANGED result
    /\ UNCHANGED <<fs, cli, path1, path2, final_dest1, final_dest2, temp_path,
                   stdout, stderr, exit_code, fs0, resolved1, resolved2, earlier,
                   renames>>

\* validate with the second nesting check (path1 inside path2) left out.
validate_one_direction ==
    /\ pc = "validate"
    /\ IF path1 = path2
       THEN Return(Err("SamePath", NoPath))
       ELSE IF is_dir(fs, path1) /\ starts_with(path2, path1)
       THEN Return(Err("SwapIntoSubdirectory", NoPath))
       ELSE /\ pc' = "dispatch"
            /\ UNCHANGED result
    /\ UNCHANGED <<fs, cli, path1, path2, final_dest1, final_dest2, temp_path,
                   stdout, stderr, exit_code, fs0, resolved1, resolved2, earlier,
                   renames>>

\* validate without the two nesting checks.
validate_identity_only ==
    /\ pc = "validate"
    /\ IF path1 = path2
       THEN Return(Err("SamePath", NoPath))
       ELSE /\ pc' = "dispatch"
            /\ UNCHANGED result
    /\ UNCHANGED <<fs, cli, path1, path2, final_dest1, final_dest2, temp_path,
                   stdout, stderr, exit_code, fs0, resolved1, resolved2, earlier,
                   renames>>

\* The identity check and the two nesting checks, in the code's order.
validate ==
    /\ pc = "validate"
    /\ IF path1 = path2
       THEN Return(Err("SamePath", NoPath))
       ELSE IF is_dir(fs, path1) /\ starts_with(path2, path1)
       THEN Return(Err("SwapIntoSubdirectory", NoPath))
       ELSE IF is_dir(fs, path2) /\ starts_with(path1, path2)
       THEN Return(Err("SwapIntoSubdirectory", NoPath))
       ELSE /\ pc' = "dispatch"
            /\ UNCHANGED result
    /\ UNCHANGED <<fs, cli, path1, path2, final_dest1, final_dest2, temp_path,
                   stdout, stderr, exit_code, fs0, resolved1, resolved2, earlier,
                   renames>>

\* dispatch that lets --verbose take part in the choice of the engine.
dispatch_verbose_selects_names ==
    /\ pc = "dispatch"
    /\ stdout' = log(log(stdout, Line("Swapping", path1, path2)),
                     Line(IF cli.name_swap THEN "Mode: Swapping names."
                          ELSE "Mode: Swapping locations.", NoPath, NoPath))
    /\ pc' = IF cli.name_swap \/ cli.verbose THEN "swap_names" ELSE "swap_locations"
    /\ UNCHANGED <<fs, cli, path1, path2, final_dest1, final_dest2, temp_path,
                   result, stderr, exit_code, fs0, resolved1, resolved2, earlier,
                   renames>>

dispatch ==
    /\ pc = "dispatch"
    /\ stdout' = log(log(stdout, Line("Swapping", path1, path2)),
                     Line(IF cli.name_swap THEN "Mode: Swapping names."
                          ELSE "Mode: Swapping locations.", NoPath, NoPath))
    /\ pc' = IF cli.name_swap THEN "swap_names" ELSE "swap_locations"
    /\ UNCHANGED <<fs, cli, path1, path2, final_dest1, final_dest2, temp_path,
                   result, stderr, exit_code, fs0, resolved1, resolved2, earlier,
                   renames>>

\* ------------------------------------------------------------- helpers

\* generate_temporary_path, for a path that has a parent and the uuid drawn.
generate_temporary_path(original_path, unique_id) ==
    join(parent(original_path), file_name(original_path) \o ".swap." \o unique_id)

\* safe_rename with its result dropped (no `?`): the engine goes on after a
\* failed rename.
safe_rename_unchecked(from, to, text, next) ==
    \E io_error \in BOOLEAN :
        LET r == IF io_error THEN [ok |-> FALSE, fs |-> fs] ELSE fs_rename(fs, from, to) IN
        /\ stdout' = log(stdout, Line(text, from, to))
        /\ fs' = r.fs
        /\ renames' = Append(renames, [from |-> from, to |-> to, ok |-> r.ok,
                                       before |-> fs])
        /\ IF next = "return" THEN Return(OkResult)
           ELSE pc' = next /\ UNCHANGED result
        /\ UNCHANGED <<cli, path1, path2, final_dest1, final_dest2, temp_path,
                       stderr, exit_code,
                       fs0, resolved1, resolved2, earlier>>

\* safe_rename that undoes the completed moves when a rename fails.
safe_rename_rollback(from, to, text, next) ==
    \E io_error \in BOOLEAN :
        LET r == IF io_error THEN [ok |-> FALSE, fs |-> fs] ELSE fs_rename(fs, from, to) IN
        /\ stdout' = log(stdout, Line(text, from, to))
        /\ fs' = IF r.ok THEN r.fs ELSE fs0
        /\ renames' = Append(renames, [from |-> from, to |-> to, ok |-> r.ok,
                                       before |-> fs])
        /\ IF ~r.ok THEN Return(Err("Io", from))
           ELSE IF next = "return" THEN Return(OkResult)
           ELSE pc' = next /\ UNCHANGED result
        /\ UNCHANGED <<cli, path1, path2, final_dest1, final_dest2, temp_path,
                       stderr, exit_code,
                       fs0, resolved1, resolved2, earlier>>

\* safe_rename that attempts a failed rename a second time before it gives
\* up.
safe_rename_retry(from, to, text, next) ==
    \E io_error \in BOOLEAN :
        LET r == IF io_error THEN [ok |-> FALSE, fs |-> fs] ELSE fs_rename(fs, from, to)
            again == fs_rename(fs, from, to)
            first == Append(renames, [from |-> from, to |-> to, ok |-> r.ok,
                                      before |-> fs])
        IN
        /\ stdout' = log(stdout, Line(text, from, to))
        /\ fs' = IF r.ok THEN r.fs ELSE again.fs
        /\ renames' = IF r.ok THEN first
                      ELSE Append(first, [from |-> from, to |-> to, ok |-> again.ok,
                                          before |-> fs])
        /\ IF ~r.ok /\ ~again.ok THEN Return(Err("Io", from))
           ELSE IF next = "return" THEN Return(OkResult)
           ELSE pc' = next /\ UNCHANGED result
        /\ UNCHANGED <<cli, path1, path2, final_dest1, final_dest2, temp_path,
                       stderr, exit_code,
                       fs0, resolved1, resolved2, earlier>>

\* safe_rename whose error carries the destination instead of the source.
safe_rename_error_names_destination(from, to, text, next) ==
    \E io_error \in BOOLEAN :
        LET r == IF io_error THEN [ok |-> FALSE, fs |-> fs] ELSE fs_rename(fs, from, to) IN
        /\ stdout' = log(stdout, Line(text, from, to))
        /\ fs' = r.fs
        /\ renames' = Append(renames, [from |-> from, to |-> to, ok |-> r.ok,
                                       before |-> fs])
        /\ IF ~r.ok THEN Return(Err("Io", to))
           ELSE IF next = "return" THEN Return(OkResult)
           ELSE pc' = next /\ UNCHANGED result
        /\ UNCHANGED <<cli, path1, path2, final_dest1, final_dest2, temp_path,
                       stderr, exit_code,
                       fs0, resolved1, resolved2, earlier>>

\* safe_rename(from, to)?: one fs::rename, which may also fail for a reason
\* outside the tree (permissions, a cross-device link, an I/O error).  On
\* failure the engine returns Io with the source path; on success it goes on
\* at `next`, or returns Ok(()) when that was the last move.
safe_rename(from, to, text, next) ==
    \E io_error \in BOOLEAN :
        LET r == IF io_error THEN [ok |-> FALSE, fs |-> fs] ELSE fs_rename(fs, from, to) IN
        /\ stdout' = log(stdout, Line(text, from, to))
        /\ fs' = r.fs
        /\ renames' = Append(renames, [from |-> from, to |-> to, ok |-> r.ok,
                                       before |-> fs])
        /\ IF ~r.ok THEN Return(Err("Io", from))
           ELSE IF next = "return" THEN Return(OkResult)
           ELSE pc' = next /\ UNCHANGED result
        /\ UNCHANGED <<cli, path1, path2, final_dest1, final_dest2, temp_path,
                       stderr, exit_code,
                       fs0, resolved1, resolved2, earlier>>

\* ------------------------------------------------------- swap_locations

\* final_dest1 with the parents mixed up: parent1.join(name1).
swap_locations_final_dest1_own_parent(p1, p2) == join(parent(p1), file_name(p1))

\* final_dest1 = parent2.join(name1).
swap_locations_final_dest1(p1, p2) == join(parent(p2), file_name(p1))

\* final_dest2 with the parents mixed up: parent2.join(name2).
swap_locations_final_dest2_own_parent(p1, p2) == join(parent(p2), file_name(p2))

\* final_dest2 = parent1.join(name2).
swap_locations_final_dest2(p1, p2) == join(parent(p1), file_name(p2))

swap_locations_plan ==
    /\ pc = "swap_locations"
    /\ IF ~has_parent(path1)
       THEN /\ Return(Err("MissingParent", path1))
            /\ UNCHANGED <<final_dest1, final_dest2, temp_path>>
       ELSE IF ~has_parent(path2)
       THEN /\ Return(Err("MissingParent", path2))
            /\ UNCHANGED <<final_dest1, final_dest2, temp_path>>
       ELSE /\ final_dest1' = swap_locations_final_dest1(path1, path2)
            /\ final_dest2' = swap_locations_final_dest2(path1, path2)
            /\ \E unique_id \in Uuids :
                  temp_path' = generate_temporary_path(path1, unique_id)
            /\ pc' = "swap_locations_1"
            /\ UNCHANGED result
    /\ UNCHANGED <<fs, cli, path1, path2, stdout, stderr, exit_code, fs0, resolved1, resolved2, earlier,
                   renames>>

swap_locations_move1 ==
    /\ pc = "swap_locations_1"
    /\ safe_rename(path1, temp_path, "1. Moving", "swap_locations_2")

swap_locations_move2 ==
    /\ pc = "swap_locations_2"
    /\ safe_rename(path2, final_dest2, "2. Moving", "swap_locations_3")

\* Move 3 forgotten: the engine returns Ok(()) after move 2.
swap_locations_move3_forgotten ==
    /\ pc = "swap_locations_3"
    /\ Return(OkResult)
    /\ UNCHANGED <<fs, cli, path1, path2, final_dest1, final_dest2, temp_path,
                   stdout, stderr, exit_code, fs0, resolved1, resolved2, earlier,
                   renames>>

swap_locations_move3 ==
    /\ pc = "swap_locations_3"
    /\ safe_rename(temp_path, final_dest1, "3. Moving", "return")

\* ----------------------------------------------------------- swap_names

\* final_dest1 with the names mixed up: parent1.join(name1).
swap_names_final_dest1_own_name(p1, p2) == join(parent(p1), file_name(p1))

\* final_dest1 = parent1.join(name2).
swap_names_final_dest1(p1, p2) == join(parent(p1), file_name(p2))

\* final_dest2 with the names mixed up: parent2.join(name2).
swap_names_final_dest2_own_name(p1, p2) == join(parent(p2), file_name(p2))

\* final_dest2 = parent2.join(name1).
swap_names_final_dest2(p1, p2) == join(parent(p2), file_name(p1))

swap_names_plan ==
    /\ pc = "swap_names"
    /\ IF ~has_parent(path1)
       THEN /\ Return(Err("MissingParent", path1))
            /\ UNCHANGED <<final_dest1, final_dest2, temp_path>>
       ELSE IF ~has_parent(path2)
       THEN /\ Return(Err("MissingParent", path2))
            /\ UNCHANGED <<final_dest1, final_dest2, temp_path>>
       ELSE /\ final_dest1' = swap_names_final_dest1(path1, path2)
            /\ final_dest2' = swap_names_final_dest2(path1, path2)
            /\ \E unique_id \in Uuids :
                  temp_path' = generate_temporary_path(path1, unique_id)
            /\ pc' = "swap_names_1"
            /\ UNCHANGED result
    /\ UNCHANGED <<fs, cli, path1, path2, stdout, stderr, exit_code, fs0, resolved1, resolved2, earlier,
                   renames>>

swap_names_move1 ==
    /\ pc = "swap_names_1"
    /\ safe_rename(path1, temp_path, "1. Renaming", "swap_names_2")

swap_names_move2 ==
    /\ pc = "swap_names_2"
    /\ safe_rename(path2, final_dest2, "2. Renaming", "swap_names_3")

swap_names_move3 ==
    /\ pc = "swap_names_3"
    /\ safe_rename(temp_path, final_dest1, "3. Renaming", "return")

\* ----------------------------------------------------------------- main

\* main without the std::process::exit(1): the error is printed, then the
\* confirmation, and the exit status is 0.
main_exit_falls_through ==
    /\ pc = "return"
    /\ pc' = "exited"
    /\ stderr' = IF result.tag = "Err"
                 THEN Append(stderr, Line(result.kind, result.path, NoPath))
                 ELSE stderr
    /\ stdout' = Append(stdout, Line("Swap successful!", NoPath, NoPath))
    /\ exit_code' = 0
    /\ UNCHANGED <<fs, cli, path1, path2, final_dest1, final_dest2, temp_path,
                   result, fs0, resolved1, resolved2, earlier,
                   renames>>

\* main after run has returned: the error on stderr and exit status 1, or
\* the confirmation on stdout and exit status 0.
main_exit ==
    /\ pc = "return"
    /\ pc' = "exited"
    /\ IF result.tag = "Err"
       THEN /\ stderr' = Append(stderr, Line(result.kind, result.path, NoPath))
            /\ exit_code' = 1
            /\ UNCHANGED stdout
       ELSE /\ stdout' = Append(stdout, Line("Swap successful!", NoPath, NoPath))
            /\ exit_code' = 0
            /\ UNCHANGED stderr
    /\ UNCHANGED <<fs, cli, path1, path2, final_dest1, final_dest2, temp_path,
                   result, fs0, resolved1, resolved2, earlier,
                   renames>>

Next ==
    \/ canonicalize_path1
    \/ canonicalize_path2
    \/ validate
    \/ dispatch
    \/ swap_locations_plan
    \/ swap_locations_move1
    \/ swap_locations_move2
    \/ swap_locations_move3
    \/ swap_names_plan
    \/ swap_names_move1
    \/ swap_names_move2
    \/ swap_names_move3
    \/ main_exit

Spec == Init /\ [][Next]_vars

\* ------------------------------------------------------ a run after a run

\* The command is issued again, with the same flags, on the two paths the
\* successful run before has put its operands at, in either order: main
\* starts anew on the filesystem as that run has left it.
run_again ==
    /\ pc = "exited"
    /\ exit_code = 0
    /\ Len(earlier) + 1 < MaxRuns
    /\ \E again \in {<<final_dest1, final_dest2>>, <<final_dest2, final_dest1>>} :
          /\ cli' = [cli EXCEPT !.path1 = again[1], !.path2 = again[2]]
          /\ resolved1' = canonicalize(fs, again[1])
          /\ resolved2' = canonicalize(fs, again[2])
    /\ earlier' = Append(earlier, [path1 |-> path1, path2 |-> path2,
                                   temp_path |-> temp_path])
    /\ pc' = "canonicalize1"
    /\ path1' = NoPath
    /\ path2' = NoPath
    /\ final_dest1' = NoPath
    /\ final_dest2' = NoPath
    /\ temp_path' = NoPath
    /\ result' = Running
    /\ stdout' = <<>>
    /\ stderr' = <<>>
    /\ exit_code' = 255
    /\ renames' = <<>>
    /\ UNCHANGED <<fs, fs0>>

NextAgain ==
    \/ Next
    \/ run_again

\* ------------------------------------------------- a wider directory

\* The names of the entries of the root directory in the wide filesystems:
\* one more than Names, so that a directory holds a third entry besides two
\* operands.
WideNames == Names \cup {"c"}

\* What the root holds under one name: nothing, a file, or a directory with
\* files under some of the names of Names.
WideChoices ==
    {[kind |-> "none", kids |-> {}], [kind |-> "file", kids |-> {}]}
        \cup {[kind |-> "dir", kids |-> k] : k \in SUBSET Names}

WideFilesystems ==
    {LET top == {<<n>> : n \in {m \in WideNames : ch[m].kind # "none"}}
         low == UNION {{<<n, k>> : k \in ch[n].kids} : n \in WideNames}
     IN  [p \in {Root} \cup top \cup low |->
             [kind |-> IF p = Root THEN "dir"
                       ELSE IF Len(p) = 1 THEN ch[p[1]].kind ELSE "file",
              id   |-> p]]
     : ch \in [WideNames -> WideChoices]}

\* The command-line paths of the wide runs: an entry of the root, or an
\* entry of one of its directories.
WidePaths ==
    {<<n>> : n \in WideNames} \cup {<<n, k>> : n \in WideNames, k \in Names}

\* The program started on a wide filesystem.
InitWide ==
    /\ fs \in WideFilesystems
    /\ fs0 = fs
    /\ cli \in [path1 : WidePaths, path2 : WidePaths,
                name_swap : BOOLEAN, verbose : BOOLEAN]
    /\ resolved1 = canonicalize(fs, cli.path1)
    /\ resolved2 = canonicalize(fs, cli.path2)
    /\ pc = "canonicalize1"
    /\ path1 = NoPath
    /\ path2 = NoPath
    /\ final_dest1 = NoPath
    /\ final_dest2 = NoPath
    /\ temp_path = NoPath
    /\ result = Running
    /\ stdout = <<>>
    /\ stderr = <<>>
    /\ exit_code = 255
    /\ renames = <<>>
    /\ earlier = <<>>

SpecWide == InitWide /\ [][Next]_vars

\* Up to MaxRuns runs in a row, the first one started on a wide filesystem,
\* where the final destinations of a run can hold a third entry.
SpecAgain == InitWide /\ [][NextAgain]_vars

\* ============================================================ the claims

\* The paths at which the entry that was at `orig` before the run is now.
WhereIs(orig) == {p \in DOMAIN fs : fs[p].id = orig}

\* The entry that was at `orig` before the run, with everything that was
\* below it, is now at `dest`, and nothing else is below `dest`.
HoldsTree(dest, orig) ==
    /\ \A q \in DOMAIN fs0 : starts_with(q, orig) =>
          LET d == dest \o SubSeq(q, Len(orig) + 1, Len(q)) IN
          d \in DOMAIN fs /\ fs[d] = fs0[q]
    /\ \A d \in DOMAIN fs : starts_with(d, dest) => starts_with(fs[d].id, orig)

Succeeded == result.tag = "Ok"

Returned == pc \in {"return", "exited"}

\* C1: whenever a LocationSwap run returns success, the entry that was at
\* A is at (B's original parent)/(A's original name), the entry that was at
\* B is at (A's original parent)/(B's original name), each with what was
\* below it, and no entry exists at the temporary path.
C1_LocationSwapPostcondition ==
    (Succeeded /\ ~cli.name_swap) =>
        /\ HoldsTree(join(parent(path2), file_name(path1)), path1)
        /\ HoldsTree(join(parent(path1), file_name(path2)), path2)
        /\ temp_path \notin DOMAIN fs

\* A LocationSwap of entries with different parents and different names
\* has returned success.
C1_Witness ==
    /\ Succeeded /\ ~cli.name_swap
    /\ parent(path1) # parent(path2)
    /\ file_name(path1) # file_name(path2)

\* C2: whenever a NameSwap run returns success, A's original parent has an
\* entry with B's original name that holds A's original content, B's
\* original parent has an entry with A's original name that holds B's
\* original content, and no entry exists at the temporary path.
C2_NameSwapPostcondition ==
    (Succeeded /\ cli.name_swap) =>
        /\ HoldsTree(join(parent(path1), file_name(path2)), path1)
        /\ HoldsTree(join(parent(path2), file_name(path1)), path2)
        /\ temp_path \notin DOMAIN fs

\* A NameSwap of entries with different parents and different names has
\* returned success.
C2_Witness ==
    /\ Succeeded /\ cli.name_swap
    /\ parent(path1) # parent(path2)
    /\ file_name(path1) # file_name(path2)

\* A is a directory holding a file, B is a file, and both have the same
\* parent.
SiblingDirAndFile ==
    /\ path1 # NoPath /\ path2 # NoPath
    /\ has_parent(path1) /\ has_parent(path2)
    /\ parent(path1) = parent(path2)
    /\ fs0[path1].kind = "dir"
    /\ \E x \in Names : join(path1, x) \in DOMAIN fs0 /\ fs0[join(path1, x)].kind = "file"
    /\ fs0[path2].kind = "file"

\* C3 as stated: for a directory A holding a file x and a file B with the
\* same parent, a successful LocationSwap leaves path B a directory that
\* holds x and path A the former file, with nothing at the temporary path.
C3_SiblingsTradePlaces ==
    (Succeeded /\ ~cli.name_swap /\ SiblingDirAndFile) =>
        /\ HoldsTree(path2, path1)
        /\ HoldsTree(path1, path2)
        /\ temp_path \notin DOMAIN fs

\* C3 as amended: for a directory A holding a file x and a file B with the
\* same parent, a successful LocationSwap leaves the filesystem as it was
\* before the run: path A is still the directory that holds x, path B is
\* still the file, and nothing is at the temporary path.
C3_SiblingsStayInPlace ==
    (Succeeded /\ ~cli.name_swap /\ SiblingDirAndFile) =>
        /\ HoldsTree(path1, path1)
        /\ HoldsTree(path2, path2)
        /\ temp_path \notin DOMAIN fs
        /\ fs = fs0

\* A LocationSwap of a directory holding a file and a sibling file has
\* returned success after three renames.
C3_Witness ==
    /\ Succeeded /\ ~cli.name_swap /\ SiblingDirAndFile
    /\ Len(renames) = 3

\* C4: in every state of a run whose operands resolved, the entry that was
\* at A is at exactly one path, which is A's original path, the temporary
\* path or A's final path, and the entry that was at B is at exactly one
\* path, which is B's original path or B's final path.
C4_EachOperandInOnePlace ==
    (path1 # NoPath /\ path2 # NoPath) =>
        /\ Cardinality(WhereIs(path1)) = 1
        /\ WhereIs(path1) \subseteq {path1, temp_path, final_dest1}
        /\ Cardinality(WhereIs(path2)) = 1
        /\ WhereIs(path2) \subseteq {path2, final_dest2}

\* Move 2 has failed where it would have put B at a new path: A is at the
\* temporary path and B at its original path.
C4_Witness ==
    /\ Len(renames) = 2 /\ ~renames[2].ok
    /\ final_dest2 # path2
    /\ WhereIs(path1) = {temp_path}
    /\ WhereIs(path2) = {path2}

BothResolve == resolved1.tag = "Ok" /\ resolved2.tag = "Ok"

Untouched == renames = <<>> /\ fs = fs0

\* C5: no rename the engine issues overwrites or replaces an existing
\* entry, an operand or a third one: the destination of every rename that
\* takes effect held no entry at the moment the rename was issued (a rename
\* of a path onto itself, which replaces nothing, is let through).
C5_NoRenameReplacesAnEntry ==
    \A i \in 1..Len(renames) :
        (renames[i].ok /\ renames[i].to # renames[i].from)
            => renames[i].to \notin DOMAIN renames[i].before

\* C6: whenever the two operands resolve to the same canonical path, no
\* rename is issued, the filesystem stays as it was, and the run returns
\* SamePath (not SwapIntoSubdirectory), in both modes.
C6_SamePathRejected ==
    (BothResolve /\ resolved1.path = resolved2.path) =>
        /\ Untouched
        /\ Returned => result = Err("SamePath", NoPath)

\* The run has ended for two different spellings of one directory.
C6_Witness ==
    /\ pc = "exited"
    /\ BothResolve /\ resolved1.path = resolved2.path
    /\ cli.path1 # cli.path2
    /\ is_dir(fs0, resolved1.path)

\* One resolved operand is a directory and the other one lies below it.
Nested ==
    /\ BothResolve
    /\ resolved1.path # resolved2.path
    /\ \/ is_dir(fs0, resolved1.path) /\ starts_with(resolved2.path, resolved1.path)
       \/ is_dir(fs0, resolved2.path) /\ starts_with(resolved1.path, resolved2.path)

\* C7: whenever one resolved operand is a directory and the other lies
\* within it at any depth, in either argument order and either mode, no
\* rename is issued, the filesystem stays as it was, and the run returns
\* SwapIntoSubdirectory.
C7_NestedRejected ==
    Nested =>
        /\ Untouched
        /\ Returned => result = Err("SwapIntoSubdirectory", NoPath)

\* The run has ended for a first operand two or more levels below the
\* directory given as second operand.
C7_Witness ==
    /\ pc = "exited"
    /\ Nested
    /\ Len(resolved1.path) >= Len(resolved2.path) + 2

\* C8 as stated: if either supplied path does not exist, no rename is
\* issued, the filesystem stays as it was, and the run returns PathNotFound
\* carrying that supplied path (the first operand when neither exists).
C8_MissingPathIsPathNotFound ==
    (resolved1.tag = "NotFound" \/ resolved2.tag = "NotFound") =>
        /\ Untouched
        /\ Returned => result = Err("PathNotFound",
                                    IF resolved1.tag = "NotFound" THEN cli.path1
                                    ELSE cli.path2)

\* C8 as amended: if the first supplied path that fails to resolve does not
\* exist, no rename is issued, the filesystem stays as it was, and the run
\* returns PathNotFound carrying that supplied path, whatever the other
\* checks would have said; a first operand that fails to resolve because a
\* component of it is not a directory makes the run return Io carrying the
\* first operand, also when the second operand does not exist.
C8_FirstUnresolvedDecides ==
    /\ (resolved1.tag = "NotFound") =>
          /\ Untouched
          /\ Returned => result = Err("PathNotFound", cli.path1)
    /\ (resolved1.tag = "Ok" /\ resolved2.tag = "NotFound") =>
          /\ Untouched
          /\ Returned => result = Err("PathNotFound", cli.path2)
    /\ (resolved1.tag = "NotADirectory") =>
          /\ Untouched
          /\ Returned => result = Err("Io", cli.path1)

\* The run has ended with PathNotFound for two identical supplied paths
\* that do not exist.
C8_Witness ==
    /\ pc = "exited"
    /\ cli.path1 = cli.path2
    /\ resolved1.tag = "NotFound"
    /\ result = Err("PathNotFound", cli.path1)

\* C9: if move 1 fails, the run returns an error, no further rename is
\* issued, and the filesystem is as it was before the run, with nothing at
\* the temporary path.
C9_Move1FailureChangesNothing ==
    (Len(renames) >= 1 /\ ~renames[1].ok) =>
        /\ Returned
        /\ result = Err("Io", path1)
        /\ Len(renames) = 1
        /\ fs = fs0
        /\ temp_path \notin DOMAIN fs

\* The run has ended after a failed move 1.
C9_Witness ==
    /\ pc = "exited"
    /\ Len(renames) = 1 /\ ~renames[1].ok
    /\ renames[1].from = path1 /\ renames[1].to = temp_path

\* C10: if move 1 succeeds and move 2 fails, the run returns an error, move
\* 3 is never issued and nothing is rolled back: the entry that was at A is
\* at the temporary path, A's original path is vacant, and B is at its
\* original path with its original content.
C10_Move2FailureLeavesATemporary ==
    (Len(renames) >= 2 /\ renames[1].ok /\ ~renames[2].ok) =>
        /\ Returned
        /\ result = Err("Io", path2)
        /\ Len(renames) = 2
        /\ HoldsTree(temp_path, path1)
        /\ path1 \notin DOMAIN fs
        /\ HoldsTree(path2, path2)

\* The run has ended after move 1 succeeded and move 2 failed.
C10_Witness ==
    /\ pc = "exited"
    /\ Len(renames) = 2 /\ renames[1].ok /\ ~renames[2].ok
    /\ renames[2].from = path2 /\ renames[2].to = final_dest2

\* C11: if moves 1 and 2 succeed and move 3 fails, the run returns an Io
\* error whose path is the temporary path and nothing is rolled back: the
\* entry that was at B is at its final destination of the mode, and the
\* entry that was at A is at the temporary path and nowhere else (not at
\* its original path, not at its final destination).
C11_Move3FailureLeavesATemporary ==
    (Len(renames) >= 3 /\ renames[1].ok /\ renames[2].ok /\ ~renames[3].ok) =>
        /\ Returned
        /\ result = Err("Io", temp_path)
        /\ Len(renames) = 3
        /\ HoldsTree(IF cli.name_swap THEN join(parent(path2), file_name(path1))
                     ELSE join(parent(path1), file_name(path2)), path2)
        /\ HoldsTree(temp_path, path1)
        /\ WhereIs(path1) = {temp_path}

\* The run has ended after moves 1 and 2 succeeded, move 2 having put B at a
\* new path, and move 3 failed.
C11_Witness ==
    /\ pc = "exited"
    /\ Len(renames) = 3 /\ renames[1].ok /\ renames[2].ok /\ ~renames[3].ok
    /\ renames[3].from = temp_path
    /\ final_dest2 # path2

\* All three renames were issued and succeeded.
AllThreeRenamed == Len(renames) = 3 /\ \A i \in 1..3 : renames[i].ok

\* Both operands resolved and passed the identity and nesting checks.
Validated == BothResolve /\ resolved1.path # resolved2.path /\ ~Nested

\* C12: a run that has ended reports success (Ok from run, exit status 0)
\* exactly when resolution, validation and all three renames succeeded; a
\* run that leaves an entry at the temporary path, or in which fewer than
\* three renames succeeded, ends with an error and exit status 1.
C12_SuccessOnlyWhenComplete ==
    /\ Returned => (Succeeded <=> (Validated /\ AllThreeRenamed))
    /\ pc = "exited" =>
          /\ exit_code = (IF Succeeded THEN 0 ELSE 1)
          /\ (temp_path \in DOMAIN fs \/ ~AllThreeRenamed) => exit_code = 1

\* The program has exited with status 1 after two of three renames
\* succeeded, an operand being left at the temporary path.
C12_Witness ==
    /\ pc = "exited"
    /\ exit_code = 1
    /\ Len(renames) = 3 /\ ~renames[3].ok
    /\ temp_path \in DOMAIN fs

\* The second of two runs has returned success: the first run succeeded
\* and the command was issued again on the two paths it put its operands at.
SecondRunSucceeded == Len(earlier) = 1 /\ Succeeded

\* Both operands of the first run are back, with all that was below them,
\* at the paths they had before it, and neither run has left an entry at
\* its temporary path.
BackWhereTheyWere ==
    /\ HoldsTree(earlier[1].path1, earlier[1].path1)
    /\ HoldsTree(earlier[1].path2, earlier[1].path2)
    /\ earlier[1].temp_path \notin DOMAIN fs
    /\ temp_path \notin DOMAIN fs

\* C13: after a successful LocationSwap of A and B, a successful
\* LocationSwap issued on the two relocated paths, (B's original
\* parent)/(A's name) and (A's original parent)/(B's name), in either order,
\* has both entries back at their original paths with their original
\* content, and no temporary entry is left.
C13_LocationSwapRoundTrip ==
    (SecondRunSucceeded /\ ~cli.name_swap) => BackWhereTheyWere

\* A second LocationSwap has succeeded on entries that first had different
\* parents and different names.
C13_Witness ==
    /\ SecondRunSucceeded /\ ~cli.name_swap
    /\ parent(earlier[1].path1) # parent(earlier[1].path2)
    /\ file_name(earlier[1].path1) # file_name(earlier[1].path2)
    /\ Len(renames) = 3

\* C20: after a successful NameSwap of A and B, a successful NameSwap
\* issued on the two resulting paths, (A's parent)/(B's name) and (B's
\* parent)/(A's name), in either order, has both entries back at their
\* original paths with their original content (also when a final
\* destination of the first run was A's or B's own path).
C20_NameSwapInvolution ==
    (SecondRunSucceeded /\ cli.name_swap) => BackWhereTheyWere

\* A second NameSwap has succeeded on entries that first had different
\* parents and different names, so that the final destinations of the first
\* run were neither A nor B.
C20_Witness ==
    /\ SecondRunSucceeded /\ cli.name_swap
    /\ parent(earlier[1].path1) # parent(earlier[1].path2)
    /\ file_name(earlier[1].path1) # file_name(earlier[1].path2)
    /\ Len(renames) = 3

\* The names of the entries directly in directory `dir` of filesystem f.
ChildNames(f, dir) ==
    {file_name(q) : q \in {r \in DOMAIN f : r # Root /\ parent(r) = dir}}

\* Every entry that was neither at nor below an operand is where and what
\* it was before the run, and no entry has appeared outside the operands.
OthersUnchanged ==
    \A q \in DOMAIN fs0 \cup DOMAIN fs :
        (~starts_with(q, path1) /\ ~starts_with(q, path2)) =>
            q \in DOMAIN fs0 /\ q \in DOMAIN fs /\ fs[q] = fs0[q]

\* C14: whenever a NameSwap of two entries with the same parent directory
\* returns success, that directory has exactly the entry names it had
\* before the run, what was under A's name is under B's name and the other
\* way round, every other entry is unchanged, and nothing is left at the
\* temporary path.
C14_NameSwapOfSiblingsKeepsTheDirectory ==
    (Succeeded /\ cli.name_swap /\ parent(path1) = parent(path2)) =>
        /\ ChildNames(fs, parent(path1)) = ChildNames(fs0, parent(path1))
        /\ HoldsTree(path2, path1)
        /\ HoldsTree(path1, path2)
        /\ OthersUnchanged
        /\ temp_path \notin DOMAIN fs

\* A NameSwap of two siblings has succeeded in a directory that holds a
\* third entry, with an entry below one of the operands.
C14_Witness ==
    /\ Succeeded /\ cli.name_swap /\ parent(path1) = parent(path2)
    /\ Len(renames) = 3
    /\ HasChildren(fs0, path1) \/ HasChildren(fs0, path2)
    /\ ChildNames(fs0, parent(path1)) \ {file_name(path1), file_name(path2)} # {}

\* The three renames an engine issues on operands A and B with temporary
\* path tmp, as <<from, to>> pairs in the order of issue.
Moves(A, B, ns, tmp) ==
    << <<A, tmp>>,
       <<B, IF ns THEN swap_names_final_dest2(A, B) ELSE swap_locations_final_dest2(A, B)>>,
       <<tmp, IF ns THEN swap_names_final_dest1(A, B) ELSE swap_locations_final_dest1(A, B)>> >>

\* Whether the i-th fs::rename is let through by the world outside the
\* tree, according to the sequence `oks` of outcomes; a call without a
\* recorded outcome is let through.
LetThrough(oks, i) == i > Len(oks) \/ oks[i]

\* The engine as a function: the moves from the i-th on are issued on
\* filesystem f until one fails.  The value is the result, the filesystem
\* at the end and the renames issued as <<from, to, ok>>.
RECURSIVE Engine(_, _, _, _)
Engine(f, moves, oks, i) ==
    IF i > Len(moves) THEN [result |-> OkResult, fs |-> f, issued |-> <<>>]
    ELSE LET from == moves[i][1]
             to   == moves[i][2]
             r    == IF LetThrough(oks, i) THEN fs_rename(f, from, to)
                     ELSE [ok |-> FALSE, fs |-> f]
         IN  IF ~r.ok
             THEN [result |-> Err("Io", from), fs |-> f,
                   issued |-> << <<from, to, FALSE>> >>]
             ELSE LET rest == Engine(r.fs, moves, oks, i + 1) IN
                  [rest EXCEPT !.issued = << <<from, to, TRUE>> >> \o @]

\* The whole run as a function of the filesystem before it, the two
\* supplied paths with what they resolve to, the mode, the temporary path
\* and the outcomes of the rename calls.  --verbose is no argument.
RunOutcome(f, p1, r1, p2, r2, ns, tmp, oks) ==
    LET Stop(e) == [result |-> e, fs |-> f, issued |-> <<>>] IN
    IF r1.tag # "Ok" THEN Stop(map_canonicalize_error(r1.tag, p1))
    ELSE IF r2.tag # "Ok" THEN Stop(map_canonicalize_error(r2.tag, p2))
    ELSE IF r1.path = r2.path THEN Stop(Err("SamePath", NoPath))
    ELSE IF is_dir(f, r1.path) /\ starts_with(r2.path, r1.path)
         THEN Stop(Err("SwapIntoSubdirectory", NoPath))
    ELSE IF is_dir(f, r2.path) /\ starts_with(r1.path, r2.path)
         THEN Stop(Err("SwapIntoSubdirectory", NoPath))
    ELSE IF ~has_parent(r1.path) THEN Stop(Err("MissingParent", r1.path))
    ELSE IF ~has_parent(r2.path) THEN Stop(Err("MissingParent", r2.path))
    ELSE Engine(f, Moves(r1.path, r2.path, ns, tmp), oks, 1)

\* The renames of this run as <<from, to, ok>>, and their outcomes alone.
Issued == [i \in 1..Len(renames) |-> <<renames[i].from, renames[i].to, renames[i].ok>>]

Outcomes == [i \in 1..Len(renames) |-> renames[i].ok]

\* C15: the renames a run has issued, the filesystem it ends in and the
\* result it returns are a function of the initial filesystem, the two
\* paths, the mode, the temporary name and the outcomes of the
\* canonicalize and rename calls, in which --verbose does not occur: two
\* runs that differ in --verbose alone agree on all three.  The exit status
\* and standard error follow from the result, and without --verbose
\* standard output holds nothing but the confirmation of a success.
C15_VerboseOnlyAddsLogLines ==
    pc = "exited" =>
        LET o == RunOutcome(fs0, cli.path1, resolved1, cli.path2, resolved2,
                            cli.name_swap, temp_path, Outcomes) IN
        /\ Issued = o.issued
        /\ fs = o.fs
        /\ result = o.result
        /\ exit_code = (IF o.result.tag = "Ok" THEN 0 ELSE 1)
        /\ stderr = (IF o.result.tag = "Ok" THEN <<>>
                     ELSE <<Line(o.result.kind, o.result.path, NoPath)>>)
        /\ ~cli.verbose =>
              stdout = (IF o.result.tag = "Ok"
                        THEN <<Line("Swap successful!", NoPath, NoPath)>> ELSE <<>>)

\* A run with --verbose has printed its log lines, issued all three
\* renames and changed the filesystem.
C15_Witness ==
    /\ pc = "exited" /\ cli.verbose
    /\ Len(renames) = 3 /\ renames[3].ok
    /\ Len(stdout) > 3
    /\ fs # fs0

\* C16: in every run the renames are issued in the order move 1 (path1 to
\* the temporary path), move 2 (path2 to final_dest2), move 3 (the
\* temporary path to final_dest1); a move is issued only after every move
\* before it has succeeded, each move is attempted once, at most three
\* renames are issued, and after a failed rename the run has returned, so
\* that none follows it.
C16_MovesInOrderOnceEach ==
    /\ Len(renames) <= 3
    /\ \A i \in 1..Len(renames) :
          /\ i < Len(renames) => renames[i].ok
          /\ ~renames[i].ok => Returned /\ result = Err("Io", renames[i].from)
          /\ renames[i].from = <<path1, path2, temp_path>>[i]
          /\ renames[i].to = <<temp_path, final_dest2, final_dest1>>[i]
    /\ Len(renames) > 0 =>
          pc = (IF renames[Len(renames)].ok /\ Len(renames) < 3
                THEN (IF cli.name_swap THEN <<"swap_names_2", "swap_names_3">>
                      ELSE <<"swap_locations_2", "swap_locations_3">>)[Len(renames)]
                ELSE pc)

\* A run has ended after its second move failed: two renames were issued,
\* the first one succeeded, and no third one followed.
C16_Witness ==
    /\ pc = "exited"
    /\ Len(renames) = 2
    /\ renames[1].ok /\ ~renames[2].ok
    /\ renames[2].from = path2 /\ renames[2].to # path2

\* C17: no rename of a run has a destination strictly below its own
\* source, and at the moment each rename is issued the parent of its
\* destination is the directory that was at that path before the run: no
\* earlier move of the run has moved it away.
C17_NoMoveIntoOwnSubtree ==
    \A i \in 1..Len(renames) :
        LET r == renames[i]
            p == parent(r.to)
        IN  /\ ~(r.to # r.from /\ starts_with(r.to, r.from))
            /\ is_dir(r.before, p)
            /\ p \in DOMAIN fs0 /\ r.before[p] = fs0[p]

\* Three renames have succeeded on two directories of different parents,
\* one of them not empty: a directory was moved into the other's parent.
C17_Witness ==
    /\ Len(renames) = 3 /\ renames[3].ok
    /\ is_dir(fs0, path1) /\ is_dir(fs0, path2)
    /\ HasChildren(fs0, path1) \/ HasChildren(fs0, path2)
    /\ parent(path1) # parent(path2)

\* Control is inside swap_locations or swap_names.
InEngine ==
    pc \in {"swap_locations", "swap_locations_1", "swap_locations_2", "swap_locations_3",
            "swap_names", "swap_names_1", "swap_names_2", "swap_names_3"}

\* C18: no run returns MissingParent.  When both operands resolve and one
\* of them resolves to the root, the only path without a parent, the run
\* returns SamePath or SwapIntoSubdirectory with no rename issued and
\* without entering an engine; whenever control is about to enter or is
\* inside an engine, both operands have a parent and so a file name.
C18_MissingParentUnreachable ==
    /\ ~(result.tag = "Err" /\ result.kind = "MissingParent")
    /\ (resolved1.tag = "Ok" /\ resolved1.path = Root)
       \/ (resolved2.tag = "Ok" /\ resolved2.path = Root) =>
          /\ ~InEngine /\ pc # "dispatch"
          /\ Untouched
          /\ temp_path = NoPath /\ final_dest1 = NoPath /\ final_dest2 = NoPath
          /\ (Returned /\ BothResolve) =>
                result \in {Err("SamePath", NoPath), Err("SwapIntoSubdirectory", NoPath)}
    /\ (InEngine \/ pc = "dispatch") =>
          /\ has_parent(path1) /\ has_parent(path2)
          /\ Len(path1) >= 1 /\ Len(path2) >= 1

\* A run has ended whose second operand resolved to the root while the
\* first resolved to a file: only the second nesting check stops it.
C18_Witness ==
    /\ pc = "exited"
    /\ BothResolve
    /\ resolved2.path = Root
    /\ resolved1.path # Root /\ ~is_dir(fs0, resolved1.path)
    /\ result = Err("SwapIntoSubdirectory", NoPath)

\* The run with the two operands in the other order, started on the
\* filesystem before this run with temporary name `unique_id`, every
\* fs::rename let through by the world outside the tree.
Reversed(unique_id) ==
    RunOutcome(fs0, cli.path2, resolved2, cli.path1, resolved1, cli.name_swap,
               generate_temporary_path(path2, unique_id), <<>>)

\* C19: whenever a run on A and B has succeeded, every successful run on B
\* and A in the same mode from the same initial filesystem ends in the
\* filesystem this run ended in; the temporary path of each is a sibling
\* of its own first operand.
C19_ArgumentOrderSymmetry ==
    (pc = "exited" /\ Succeeded) =>
        /\ parent(temp_path) = parent(path1)
        /\ \A unique_id \in Uuids :
              LET rev == Reversed(unique_id) IN
              rev.result = OkResult =>
                  /\ rev.fs = fs
                  /\ Len(rev.issued) = 3
                  /\ parent(rev.issued[1][2]) = parent(path2)

\* A run on entries with different parents and different names has
\* succeeded and changed the filesystem, and the run with the operands in
\* the other order succeeds as well.
C19_Witness ==
    /\ pc = "exited" /\ Succeeded
    /\ fs # fs0
    /\ parent(path1) # parent(path2)
    /\ file_name(path1) # file_name(path2)
    /\ \E unique_id \in Uuids : Reversed(unique_id).result = OkResult

====
